---- MODULE Spec2Model ----
(***************************************************************************)
(* A model of exp_viz: filter_coverage_data (src/src/filter.rs) and        *)
(* merge_filtered_data (src/src/merge.rs).  Floating point values are      *)
(* modelled by integers; the named f32/f64 limits are sentinels outside    *)
(* the range of the data.                                                  *)
(***************************************************************************)
EXTENDS Integers, Sequences, FiniteSets, TLC

VARIABLES
    result_data,      \* merge_filtered_data: the list of FilteredData to merge
    chromosome_list,  \* merge_filtered_data: the caller's chromosome names
    merged,           \* the value returned by merge_filtered_data(result_data, ..)
    partial,          \* the value returned for the first two inputs alone
    nested,           \* the value returned for <<partial, third input>>
    data,             \* filter_coverage_data: the CoverageData catalog
    filters,          \* filter_coverage_data: the Filter
    filtered,         \* the value returned by filter_coverage_data(filters, data)
    encoded,          \* FilteredData::deserialize: the serialized form to decode
    decoded,          \* the value returned for encoded
    partials,         \* the per-chromosome tuples filter_coverage_data combines
    combined,         \* the value filter_coverage_data builds from partials
    order,            \* a permutation of the positions of result_data
    permuted          \* the value returned for result_data taken in that order

merge_vars == <<result_data, chromosome_list, merged, partial, nested>>
filter_vars == <<data, filters, filtered>>
decode_vars == <<encoded, decoded>>
combine_vars == <<partials, combined>>
permute_vars == <<order, permuted>>
vars == <<merge_vars, filter_vars, decode_vars, combine_vars, permute_vars>>

\* "not called yet" and "the call panicked", as records so that they compare
\* with the records the calls return.
Unset == [unset |-> TRUE]
PANIC == [panic |-> TRUE]

\* Option<T>: None is the empty sequence, Some(x) the sequence of x alone.
None == <<>>
Some(x) == <<x>>
Unwrap(o) == o[1]

----------------------------------------------------------------------------
(* Numbers *)

F32_MAX == 1000
F32_MIN == -1000
F64_MAX == 2000
F64_MIN == -2000
INFINITY == 3000
NEG_INFINITY == -3000

Abs(x) == IF x < 0 THEN -x ELSE x
Min(a, b) == IF a < b THEN a ELSE b
Max(a, b) == IF a > b THEN a ELSE b

----------------------------------------------------------------------------
(* merge.rs *)

\* The FilteredChromosome built at the top of each iteration over the names.
DefaultChromosome(chrom) ==
    [chrom |-> chrom, index |-> 0, bucket_size |-> 0,
     target_intervals |-> <<>>, source_intervals |-> <<>>]

CombineBucketsSigned(nb, fb) ==
    [start |-> fb.start,
     count |-> fb.count + nb.count,
     associated_buckets |-> fb.associated_buckets \o nb.associated_buckets,
     max_log10_sig |-> Max(fb.max_log10_sig, nb.max_log10_sig),
     max_abs_effect |-> IF fb.max_abs_effect > nb.max_abs_effect
                        THEN fb.max_abs_effect
                        ELSE nb.max_abs_effect]

CombineBucketsLaterSig(nb, fb) ==
    [start |-> fb.start,
     count |-> fb.count + nb.count,
     associated_buckets |-> fb.associated_buckets \o nb.associated_buckets,
     max_log10_sig |-> fb.max_log10_sig,
     max_abs_effect |-> IF Abs(fb.max_abs_effect) > Abs(nb.max_abs_effect)
                        THEN fb.max_abs_effect
                        ELSE nb.max_abs_effect]

\* The bucket pushed when both sequences have the same start:
\* nb is the accumulator's bucket, fb the later input's.
CombineBuckets(nb, fb) ==
    [start |-> fb.start,
     count |-> fb.count + nb.count,
     associated_buckets |-> fb.associated_buckets \o nb.associated_buckets,
     max_log10_sig |-> Max(fb.max_log10_sig, nb.max_log10_sig),
     max_abs_effect |-> IF Abs(fb.max_abs_effect) > Abs(nb.max_abs_effect)
                        THEN fb.max_abs_effect
                        ELSE nb.max_abs_effect]

\* One merge-join loop: ni are the accumulator's intervals, fi the later
\* input's, i and j the (1-based) cursors, out the intervals pushed so far.
RECURSIVE MergeJoin(_, _, _, _, _)
MergeJoin(ni, fi, i, j, out) ==
    IF i > Len(ni) THEN out \o SubSeq(fi, j, Len(fi))
    ELSE IF j > Len(fi) THEN out \o SubSeq(ni, i, Len(ni))
    ELSE IF ni[i].start < fi[j].start
         THEN MergeJoin(ni, fi, i + 1, j, Append(out, ni[i]))
    ELSE IF ni[i].start > fi[j].start
         THEN MergeJoin(ni, fi, i, j + 1, Append(out, fi[j]))
    ELSE MergeJoin(ni, fi, i + 1, j + 1, Append(out, CombineBuckets(ni[i], fi[j])))

merge_intervals_extend(ni, fi) == ni \o fi

merge_intervals(ni, fi) == MergeJoin(ni, fi, 1, 1, <<>>)

\* Index of the first chromosome of cs named chrom, 0 when there is none.
RECURSIVE FirstNamed(_, _, _)
FirstNamed(cs, chrom, k) ==
    IF k > Len(cs) THEN 0
    ELSE IF cs[k].chrom = chrom THEN k
    ELSE FirstNamed(cs, chrom, k + 1)

\* The body of "for filtered_data in result_data" for one name: st is
\* [nc |-> new_chromosome, covered |-> chroms_covered].
VisitData(st, filtered_data, chrom) ==
    LET k == FirstNamed(filtered_data.chromosomes, chrom, 1) IN
    IF k = 0 THEN st
    ELSE LET fc == filtered_data.chromosomes[k] IN
         IF fc.chrom \notin st.covered
         THEN [nc |-> fc, covered |-> st.covered \cup {fc.chrom}]
         ELSE [nc |-> [st.nc EXCEPT
                        !.source_intervals =
                            merge_intervals(st.nc.source_intervals, fc.source_intervals),
                        !.target_intervals =
                            merge_intervals(st.nc.target_intervals, fc.target_intervals)],
               covered |-> st.covered]

RECURSIVE VisitAll(_, _, _, _)
VisitAll(st, rd, chrom, k) ==
    IF k > Len(rd) THEN st
    ELSE VisitAll(VisitData(st, rd[k], chrom), rd, chrom, k + 1)

RECURSIVE MergeNamesSkipAbsent(_, _, _, _)
MergeNamesSkipAbsent(acc, rd, chromosomes, k) ==
    IF k > Len(chromosomes) THEN acc.cov
    ELSE LET st == VisitAll([nc |-> DefaultChromosome(chromosomes[k]),
                             covered |-> acc.covered], rd, chromosomes[k], 1)
         IN MergeNamesSkipAbsent(
                [cov |-> IF \E d \in 1..Len(rd) :
                               FirstNamed(rd[d].chromosomes, chromosomes[k], 1) # 0
                         THEN Append(acc.cov, st.nc) ELSE acc.cov,
                 covered |-> st.covered],
                rd, chromosomes, k + 1)

\* "for chrom in chromosomes": acc is [cov |-> new_coverage, covered |-> ..].
RECURSIVE MergeNames(_, _, _, _)
MergeNames(acc, rd, chromosomes, k) ==
    IF k > Len(chromosomes) THEN acc.cov
    ELSE LET st == VisitAll([nc |-> DefaultChromosome(chromosomes[k]),
                             covered |-> acc.covered], rd, chromosomes[k], 1)
         IN MergeNames([cov |-> Append(acc.cov, st.nc), covered |-> st.covered],
                       rd, chromosomes, k + 1)

merge_chromosomes_short(rd, chromosomes) ==
    IF Len(rd) = 0 THEN <<>>
    ELSE IF Len(rd) <= 2 THEN rd[1].chromosomes
    ELSE MergeNames([cov |-> <<>>, covered |-> {}], rd, chromosomes, 1)

merge_chromosomes(rd, chromosomes) ==
    IF Len(rd) = 0 THEN <<>>
    ELSE IF Len(rd) = 1 THEN rd[1].chromosomes
    ELSE MergeNames([cov |-> <<>>, covered |-> {}], rd, chromosomes, 1)

RECURSIVE FoldIntervals(_, _, _)
FoldIntervals(acc, rd, k) ==
    IF k > Len(rd) THEN acc
    ELSE LET d == rd[k].numeric_intervals IN
         FoldIntervals([effect |-> <<Min(acc.effect[1], d.effect[1]),
                                     Max(acc.effect[2], d.effect[2])>>,
                        sig |-> <<Min(acc.sig[1], d.sig[1]),
                                  Max(acc.sig[2], d.sig[2])>>],
                       rd, k + 1)

SumReoCountDistinct(rd, k) ==
    Cardinality({rd[j].reo_count : j \in k..Len(rd)})

RECURSIVE SumReoCount(_, _)
SumReoCount(rd, k) ==
    IF k > Len(rd) THEN 0 ELSE rd[k].reo_count + SumReoCount(rd, k + 1)

merge_filtered_data(rd, chromosomes) ==
    IF Len(rd) = 0 THEN PANIC   \* result_data[0] is out of bounds
    ELSE [chromosomes |-> merge_chromosomes(rd, chromosomes),
          numeric_intervals |->
              FoldIntervals([effect |-> <<F32_MAX, F32_MIN>>,
                             sig |-> <<F64_MAX, F64_MIN>>], rd, 1),
          bucket_size |-> rd[1].bucket_size,
          reo_count |-> SumReoCount(rd, 1),
          sources |-> UNION {rd[k].sources : k \in 1..Len(rd)},
          targets |-> UNION {rd[k].targets : k \in 1..Len(rd)}]

----------------------------------------------------------------------------
(* Inputs of merge_filtered_data *)

NumBuckets == 2     \* bucket positions per chromosome
BucketSize == 10    \* base pairs per bucket

\* The start coordinate of bucket b.
StartOf(b) == b * BucketSize + 1

\* The two FilteredBucket values input n may hold at bucket b.
BucketOf(n, b, v) ==
    IF v = 1
    THEN [start |-> StartOf(b), count |-> n,
          associated_buckets |-> <<1, n>>,
          max_log10_sig |-> n, max_abs_effect |-> -2]
    ELSE [start |-> StartOf(b), count |-> 1,
          associated_buckets |-> IF n = 2 THEN <<>> ELSE <<2, 0>>,
          max_log10_sig |-> 4 - n,
          max_abs_effect |-> IF n = 1 THEN 1 ELSE IF n = 2 THEN 2 ELSE -3]

\* A start-ascending interval list: the occupied buckets, and which of the
\* two values the even buckets hold (the odd ones hold the other).
ListShapes ==
    {[on |-> {}, v |-> 1]}
      \cup {[on |-> S, v |-> v] : S \in (SUBSET (0..(NumBuckets - 1))) \ {{}}, v \in 1..2}

RECURSIVE BuildList(_, _, _)
BuildList(n, f, b) ==
    IF b >= NumBuckets THEN <<>>
    ELSE (IF b \in f.on
          THEN <<BucketOf(n, b, IF b % 2 = 0 THEN f.v ELSE 3 - f.v)>>
          ELSE <<>>)
         \o BuildList(n, f, b + 1)

Chr1(n, src, tgt) ==
    [chrom |-> "chr1", index |-> 1, bucket_size |-> BucketSize,
     target_intervals |-> BuildList(n, tgt, 0),
     source_intervals |-> BuildList(n, src, 0)]

Chr2(n, src, tgt) ==
    [chrom |-> "chr2", index |-> 2, bucket_size |-> BucketSize,
     target_intervals |-> BuildList(n, src, 0),
     source_intervals |-> BuildList(n, tgt, 0)]

\* The chromosome lists an input may carry.
ChromsOf(layout, n, src, tgt) ==
    CASE layout = "full"     -> <<Chr1(n, src, tgt), Chr2(n, src, tgt)>>
      [] layout = "reversed" -> <<Chr2(n, src, tgt), Chr1(n, src, tgt)>>
      [] layout = "chr1"     -> <<Chr1(n, src, tgt)>>
      [] layout = "chr2"     -> <<Chr2(n, src, tgt)>>

InputOf(layout, n, src, tgt) ==
    [chromosomes |-> ChromsOf(layout, n, src, tgt),
     bucket_size |-> BucketSize,
     numeric_intervals |-> [effect |-> <<0 - n, 3 - n>>, sig |-> <<n - 1, 5 - n>>],
     reo_count |-> n,
     sources |-> {n, n + 1},
     targets |-> {10 + n, 20}]

\* The caller's name list with the layouts of the three inputs.
Scenarios ==
    { [names |-> <<"chr1", "chr2">>, layouts |-> <<"full", "full", "full">>],
      [names |-> <<"chr2", "chr1">>, layouts |-> <<"full", "full", "full">>],
      [names |-> <<"chr1">>,         layouts |-> <<"full", "full", "full">>],
      [names |-> <<"chr1", "chr3">>, layouts |-> <<"full", "full", "full">>],
      [names |-> <<"chr1", "chr1">>, layouts |-> <<"full", "full", "full">>],
      [names |-> <<"chr1", "chr2">>, layouts |-> <<"full", "full", "reversed">>],
      [names |-> <<"chr1", "chr2">>, layouts |-> <<"chr2", "full", "full">>],
      [names |-> <<"chr1", "chr2">>, layouts |-> <<"full", "chr1", "full">>],
      [names |-> <<"chr1", "chr2">>, layouts |-> <<"chr2", "chr2", "full">>] }

MergeInit ==
    \E s1 \in ListShapes, s2 \in ListShapes, s3 \in ListShapes,
       sc \in Scenarios, n \in 0..3 :
        /\ result_data = SubSeq(<<InputOf(sc.layouts[1], 1, s1, s2),
                                  InputOf(sc.layouts[2], 2, s2, s3),
                                  InputOf(sc.layouts[3], 3, s3, s1)>>, 1, n)
        /\ chromosome_list = sc.names
        /\ merged = Unset
        /\ partial = Unset
        /\ nested = Unset
        /\ data = Unset
        /\ filters = Unset
        /\ filtered = Unset
        /\ encoded = Unset
        /\ decoded = Unset
        /\ partials = Unset
        /\ combined = Unset
        /\ order = Unset
        /\ permuted = Unset

\* A caller merges the whole list.
CallMerge ==
    /\ merged = Unset
    /\ merged' = merge_filtered_data(result_data, chromosome_list)
    /\ UNCHANGED <<result_data, chromosome_list, partial, nested, filter_vars, decode_vars, combine_vars, permute_vars>>

\* A caller merges the first two of three inputs ...
CallMergePair ==
    /\ merged # Unset
    /\ Len(result_data) = 3
    /\ partial = Unset
    /\ partial' = merge_filtered_data(SubSeq(result_data, 1, 2), chromosome_list)
    /\ UNCHANGED <<result_data, chromosome_list, merged, nested, filter_vars, decode_vars, combine_vars, permute_vars>>

\* ... and then merges that result with the third.
CallMergeNested ==
    /\ partial # Unset
    /\ nested = Unset
    /\ nested' = merge_filtered_data(<<partial, result_data[3]>>, chromosome_list)
    /\ UNCHANGED <<result_data, chromosome_list, merged, partial, filter_vars, decode_vars, combine_vars, permute_vars>>

MergeNext == CallMerge \/ CallMergePair \/ CallMergeNested

MergeSpec == MergeInit /\ [][MergeNext]_vars

----------------------------------------------------------------------------
(* Properties of merge_filtered_data *)

Roles == {"source_intervals", "target_intervals"}

Returned(v) == v # Unset /\ v # PANIC

\* The interval list of role r that input d holds for the name, <<>> if none.
ListOfInput(d, name, r) ==
    LET k == FirstNamed(d.chromosomes, name, 1) IN
    IF k = 0 THEN <<>> ELSE d.chromosomes[k][r]

StartsOf(list) == {list[i].start : i \in DOMAIN list}

StrictlyAscending(list) ==
    \A i \in DOMAIN list : \A j \in DOMAIN list :
        i < j => list[i].start < list[j].start

\* acc and later are two inputs merged in this order into out under names:
\* every start they share yields one bucket combined as C1 says.
SharedStartsCombined(acc, later, out, names) ==
    \A k \in DOMAIN names : \A r \in Roles :
        LET la == ListOfInput(acc, names[k], r)
            lb == ListOfInput(later, names[k], r)
            lo == out.chromosomes[k][r]
        IN \A i \in DOMAIN la : \A j \in DOMAIN lb :
            la[i].start = lb[j].start =>
              /\ Cardinality({o \in DOMAIN lo : lo[o].start = la[i].start}) = 1
              /\ \A o \in DOMAIN lo : lo[o].start = la[i].start =>
                   /\ lo[o].count = la[i].count + lb[j].count
                   /\ lo[o].max_log10_sig
                        = Max(la[i].max_log10_sig, lb[j].max_log10_sig)
                   /\ lo[o].max_abs_effect
                        \in {la[i].max_abs_effect, lb[j].max_abs_effect}
                   /\ Abs(lo[o].max_abs_effect)
                        = Max(Abs(la[i].max_abs_effect), Abs(lb[j].max_abs_effect))
                   /\ lo[o].associated_buckets
                        \in {la[i].associated_buckets \o lb[j].associated_buckets,
                             lb[j].associated_buckets \o la[i].associated_buckets}

SharesStart(acc, later, names) ==
    \E k \in DOMAIN names : \E r \in Roles :
        StartsOf(ListOfInput(acc, names[k], r))
          \cap StartsOf(ListOfInput(later, names[k], r)) # {}

\* C1: when the accumulator and a later input of a merge both hold a bucket
\* at one start, in either role, the result holds exactly one bucket there,
\* with the counts summed, the larger max_log10_sig, the max_abs_effect of
\* larger absolute value (sign kept) and both associated_buckets lists
\* concatenated without deduplication.  Checked for a merge of two inputs and
\* for the merge of an earlier result with a third input.
C1_SharedStartCombined ==
    /\ (Returned(merged) /\ Len(result_data) = 2)
         => SharedStartsCombined(result_data[1], result_data[2], merged,
                                 chromosome_list)
    /\ Returned(nested)
         => SharedStartsCombined(partial, result_data[3], nested, chromosome_list)

C1_Witness ==
    /\ Returned(nested)
    /\ SharesStart(partial, result_data[3], chromosome_list)
    /\ \E b \in DOMAIN nested.chromosomes[1].source_intervals :
          /\ nested.chromosomes[1].source_intervals[b].count = 6
          /\ nested.chromosomes[1].source_intervals[b].max_abs_effect = -2

\* C2: for two or more inputs, each chromosome of the result has, in each
\* role, a strictly ascending interval list whose starts are the union of the
\* inputs' starts for that name, and a bucket whose start is held by one
\* input only is that input's bucket, unchanged.
C2_SortedUnion ==
    (Returned(merged) /\ Len(result_data) >= 2) =>
      \A k \in DOMAIN chromosome_list : \A r \in Roles :
        LET lo == merged.chromosomes[k][r]
            ins == [d \in DOMAIN result_data |->
                       ListOfInput(result_data[d], chromosome_list[k], r)]
        IN /\ StrictlyAscending(lo)
           /\ StartsOf(lo) = UNION {StartsOf(ins[d]) : d \in DOMAIN ins}
           /\ \A d \in DOMAIN ins : \A i \in DOMAIN ins[d] :
                (\A e \in DOMAIN ins : e # d => ins[d][i].start \notin StartsOf(ins[e]))
                  => \E o \in DOMAIN lo : lo[o] = ins[d][i]

C2_Witness ==
    /\ Returned(merged)
    /\ Len(result_data) = 3
    /\ Len(merged.chromosomes) >= 1
    /\ Len(merged.chromosomes[1].source_intervals) = NumBuckets
    /\ Len(result_data[1].chromosomes[1].source_intervals) = 1
    /\ Len(result_data[2].chromosomes[1].source_intervals) = 1
    /\ result_data[1].chromosomes[1].chrom = chromosome_list[1]
    /\ result_data[2].chromosomes[1].chrom = chromosome_list[1]
    /\ StartsOf(result_data[1].chromosomes[1].source_intervals)
         # StartsOf(result_data[2].chromosomes[1].source_intervals)

NamesOf(d) == {d.chromosomes[k].chrom : k \in DOMAIN d.chromosomes}

\* Same-shape inputs: all hold the same chromosomes.
SameShape(rd) == \A a \in DOMAIN rd : \A b \in DOMAIN rd : NamesOf(rd[a]) = NamesOf(rd[b])

\* C3: for same-shape inputs A, B, C and one name list, merging [A, B, C]
\* and merging [merge of [A, B], C] return the same FilteredData, field by
\* field.
C3_MergeAssociative ==
    (Returned(nested) /\ SameShape(result_data)) => nested = merged

C3_Witness ==
    /\ Returned(nested)
    /\ SameShape(result_data)
    /\ SharesStart(partial, result_data[3], chromosome_list)
    /\ SharesStart(result_data[1], result_data[2], chromosome_list)
    /\ Len(chromosome_list) = 2

InNameOrder(out, names) ==
    /\ Len(out.chromosomes) = Len(names)
    /\ \A k \in DOMAIN names : out.chromosomes[k].chrom = names[k]

----------------------------------------------------------------------------
(* filter_data_structures.rs: BucketList *)

\* BucketList::new over zip(chromosomes, chrom_lengths): per chromosome
\* index, length / bucket_size + 1 zeroes.
BucketList_new(d, bucket_size) ==
    LET zipped == DOMAIN d.chromosomes \cap DOMAIN d.chrom_lengths IN
    [c \in {d.chromosomes[k].index : k \in zipped} |->
        LET k == CHOOSE k \in zipped : d.chromosomes[k].index = c
        IN [j \in 1..((d.chrom_lengths[k] \div bucket_size) + 1) |-> 0]]

\* The bucket list of a call that panicked on an index out of bounds (no
\* chromosome has index -1).
OutOfBounds == [c \in {-1} |-> <<>>]

\* BucketList::insert: an unknown chromosome is ignored, v[bucket] = 1
\* panics when bucket is out of the vector's bounds.
BucketList_insert(bl, loc) ==
    IF bl = OutOfBounds THEN OutOfBounds
    ELSE IF loc.chrom \notin DOMAIN bl THEN bl
    ELSE IF loc.idx + 1 \notin DOMAIN bl[loc.chrom] THEN OutOfBounds
    ELSE [bl EXCEPT ![loc.chrom][loc.idx + 1] = 1]

RECURSIVE BucketList_insert_from(_, _)
BucketList_insert_from(bl, from) ==
    IF from = <<>> THEN bl
    ELSE BucketList_insert_from(BucketList_insert(bl, Head(from)), Tail(from))

\* The locations of seq-of-pairs form, flattened to chrom, idx, chrom, idx ...
RECURSIVE Flatten(_)
Flatten(locs) ==
    IF locs = <<>> THEN <<>>
    ELSE <<Head(locs).chrom, Head(locs).idx>> \o Flatten(Tail(locs))

\* The elements of a set of integers in ascending order.
RECURSIVE Ascending(_)
Ascending(S) ==
    IF S = {} THEN <<>>
    ELSE LET m == CHOOSE x \in S : \A y \in S : x <= y
         IN <<m>> \o Ascending(S \ {m})

RECURSIVE FlatChroms(_, _)
FlatChroms(bl, cs) ==
    IF cs = <<>> THEN <<>>
    ELSE LET v == bl[Head(cs)]
             js == Ascending({j \in DOMAIN v : v[j] = 1})
         IN Flatten([n \in DOMAIN js |-> [chrom |-> Head(cs), idx |-> js[n] - 1]])
            \o FlatChroms(bl, Tail(cs))

\* BucketList::flat_list; the map is visited in ascending key order.
BucketList_flat_list(bl) == FlatChroms(bl, Ascending(DOMAIN bl))

----------------------------------------------------------------------------
(* filter.rs *)

CATEGORICAL == "FacetType.CATEGORICAL"

is_disjoint(a, b) == a \cap b = {}

\* -observation.significance.log10(): the catalog holds the significance
\* 10^e as its exponent e.
NegLog10(e) == 0 - e

\* The state of the loops over one chromosome: the extrema and id sets of
\* the closure, with the current role's ids and intervals and the current
\* interval's counters.
ChromState ==
    [min_effect |-> INFINITY, max_effect |-> NEG_INFINITY,
     min_sig |-> INFINITY, max_sig |-> NEG_INFINITY,
     reo_ids |-> {}, ids |-> {}, intervals |-> <<>>,
     count |-> 0, buckets |-> <<>>, new_regeffects |-> FALSE, panicked |-> FALSE,
     max_interval_sig |-> F32_MIN, max_interval_effect |-> 0]

PassesCategoricalAny(cx, observation) ==
    \/ cx.skip_disc_facet_check
    \/ \E n \in DOMAIN cx.selected : ~is_disjoint(observation.facet_ids, cx.selected[n])

\* The categorical test of one observation for the role of cx.
PassesCategorical(cx, observation) ==
    \/ cx.skip_disc_facet_check
    \/ \A n \in DOMAIN cx.selected : ~is_disjoint(observation.facet_ids, cx.selected[n])

PassesNumericOpen(cx, observation) ==
    \/ cx.skip_cont_facet_check
    \/ /\ observation.effect_size > cx.effect_size_interval[1]
       /\ observation.effect_size < cx.effect_size_interval[2]
       /\ NegLog10(observation.significance) > cx.sig_interval[1]
       /\ NegLog10(observation.significance) < cx.sig_interval[2]

\* The numeric test of one observation.
PassesNumeric(cx, observation) ==
    \/ cx.skip_cont_facet_check
    \/ /\ observation.effect_size >= cx.effect_size_interval[1]
       /\ observation.effect_size <= cx.effect_size_interval[2]
       /\ NegLog10(observation.significance) >= cx.sig_interval[1]
       /\ NegLog10(observation.significance) <= cx.sig_interval[2]

\* The largest absolute effect so far, sign kept.
LargerEffect(max_interval_effect, effect_size) ==
    IF Abs(max_interval_effect) > Abs(effect_size)
    THEN max_interval_effect ELSE effect_size

FilterObservationIncludedExtrema(cx, st, id, observation) ==
    IF PassesCategorical(cx, observation) /\ PassesNumeric(cx, observation)
    THEN LET obs_sig == NegLog10(observation.significance)
         IN [st EXCEPT !.min_effect = Min(observation.effect_size, @),
                       !.max_effect = Max(observation.effect_size, @),
                       !.min_sig = Min(obs_sig, @),
                       !.max_sig = Max(obs_sig, @),
                       !.new_regeffects = TRUE,
                       !.ids = @ \cup {id},
                       !.reo_ids = @ \cup {observation.reo_id},
                       !.max_interval_sig = Max(@, obs_sig),
                       !.max_interval_effect =
                           LargerEffect(@, observation.effect_size)]
    ELSE st

\* The body of "for observation in &source.facets" on the filtering path.
FilterObservation(cx, st, id, observation) ==
    IF PassesCategorical(cx, observation)
    THEN LET obs_sig == NegLog10(observation.significance)
             s1 == [st EXCEPT !.min_effect = Min(observation.effect_size, @),
                              !.max_effect = Max(observation.effect_size, @),
                              !.min_sig = Min(obs_sig, @),
                              !.max_sig = Max(obs_sig, @)]
         IN IF PassesNumeric(cx, observation)
            THEN [s1 EXCEPT !.new_regeffects = TRUE,
                            !.ids = @ \cup {id},
                            !.reo_ids = @ \cup {observation.reo_id},
                            !.max_interval_sig = Max(@, obs_sig),
                            !.max_interval_effect =
                                LargerEffect(@, observation.effect_size)]
            ELSE s1
    ELSE st

RECURSIVE FilterObservations(_, _, _, _, _)
FilterObservations(cx, st, id, facets, k) ==
    IF k > Len(facets) THEN st
    ELSE FilterObservations(cx, FilterObservation(cx, st, id, facets[k]),
                            id, facets, k + 1)

\* "if new_regeffects { ... }": the feature counts and marks its buckets.
CountFeature(s1, feature) ==
    IF s1.new_regeffects
    THEN [s1 EXCEPT !.buckets =
                        BucketList_insert_from(@, feature.associated_buckets),
                    !.count = @ + 1]
    ELSE s1

\* The body of "for source in sources" on the filtering path.
FilterFeature(cx, st, feature) ==
    CountFeature(FilterObservations(cx, [st EXCEPT !.new_regeffects = FALSE],
                                    feature.id, feature.facets, 1),
                 feature)

RECURSIVE FilterFeatures(_, _, _, _)
FilterFeatures(cx, st, values, k) ==
    IF k > Len(values) THEN st
    ELSE FilterFeatures(cx, FilterFeature(cx, st, values[k]), values, k + 1)

\* "if new_source_count > 0 { new_c.source_intervals.push(...) }".
PushBucket(s1, interval) ==
    IF s1.buckets = OutOfBounds THEN [s1 EXCEPT !.panicked = TRUE]
    ELSE IF s1.count > 0
    THEN [s1 EXCEPT !.intervals = Append(@,
             [start |-> interval.start,
              count |-> s1.count,
              associated_buckets |-> BucketList_flat_list(s1.buckets),
              max_log10_sig |-> s1.max_interval_sig,
              max_abs_effect |-> s1.max_interval_effect])]
    ELSE s1

\* The body of "for interval in &chromosome.source_intervals", filtering.
FilterInterval(cx, st, interval) ==
    PushBucket(FilterFeatures(cx, [st EXCEPT !.count = 0,
                                            !.buckets = cx.bucket_list,
                                            !.max_interval_sig = F32_MIN,
                                            !.max_interval_effect = 0],
                              interval.values, 1),
               interval)

RECURSIVE FilterIntervals(_, _, _, _)
FilterIntervals(cx, st, intervals, k) ==
    IF k > Len(intervals) THEN st
    ELSE FilterIntervals(cx, FilterInterval(cx, st, intervals[k]), intervals, k + 1)

\* The body of "for observation in &feature.facets" when nothing is filtered.
NoFilterObservation(st, observation) ==
    [st EXCEPT !.reo_ids = @ \cup {observation.reo_id},
               !.max_interval_sig = Max(@, NegLog10(observation.significance)),
               !.max_interval_effect = LargerEffect(@, observation.effect_size)]

RECURSIVE NoFilterObservations(_, _, _)
NoFilterObservations(st, facets, k) ==
    IF k > Len(facets) THEN st
    ELSE NoFilterObservations(NoFilterObservation(st, facets[k]), facets, k + 1)

\* The body of "for feature in &interval.values" when nothing is filtered;
\* buckets is the FxHashSet associated_bucket.
NoFilterFeature(st, feature) ==
    NoFilterObservations(
        [st EXCEPT !.ids = @ \cup {feature.id},
                   !.buckets = @ \cup {feature.associated_buckets[n] :
                                          n \in DOMAIN feature.associated_buckets}],
        feature.facets, 1)

RECURSIVE NoFilterFeatures(_, _, _)
NoFilterFeatures(st, values, k) ==
    IF k > Len(values) THEN st
    ELSE NoFilterFeatures(NoFilterFeature(st, values[k]), values, k + 1)

LocBefore(a, b) == a.chrom < b.chrom \/ (a.chrom = b.chrom /\ a.idx <= b.idx)

\* The elements of a set of BucketLoc, in ascending (chrom, idx) order.
RECURSIVE AscendingLocs(_)
AscendingLocs(S) ==
    IF S = {} THEN <<>>
    ELSE LET m == CHOOSE x \in S : \A y \in S : LocBefore(x, y)
         IN <<m>> \o AscendingLocs(S \ {m})

\* "new_c.source_intervals.push(...)" when nothing is filtered: one bucket
\* per interval; the set is visited in ascending order.
NoFilterPushBucket(s1, interval) ==
    [s1 EXCEPT !.intervals = Append(@,
        [start |-> interval.start,
         count |-> Len(interval.values),
         associated_buckets |-> Flatten(AscendingLocs(s1.buckets)),
         max_log10_sig |-> s1.max_interval_sig,
         max_abs_effect |-> s1.max_interval_effect])]

\* The body of "for interval in &chromosome.source_intervals" when nothing
\* is filtered.
NoFilterInterval(st, interval) ==
    NoFilterPushBucket(NoFilterFeatures([st EXCEPT !.buckets = {},
                                                  !.max_interval_sig = F32_MIN,
                                                  !.max_interval_effect = 0],
                                        interval.values, 1),
                       interval)

RECURSIVE NoFilterIntervals(_, _, _)
NoFilterIntervals(st, intervals, k) ==
    IF k > Len(intervals) THEN st
    ELSE NoFilterIntervals(NoFilterInterval(st, intervals[k]), intervals, k + 1)

\* One role of one chromosome: "do no filtering" or the filtering loops.
FilterRole(cx, st, intervals) ==
    IF cx.skip_cont_facet_check /\ Len(cx.with_selections) = 0
    THEN NoFilterIntervals([st EXCEPT !.ids = {}, !.intervals = <<>>], intervals, 1)
    ELSE FilterIntervals(cx, [st EXCEPT !.ids = {}, !.intervals = <<>>], intervals, 1)

\* The tuple the closure returns for one chromosome: s1 is the state after
\* the source intervals, s2 the state after the target intervals.
ChromTuple(chromosome, s1, s2) ==
    [chrom_data |-> [chrom |-> chromosome.chrom,
                     index |-> chromosome.index,
                     bucket_size |-> chromosome.bucket_size,
                     target_intervals |-> s2.intervals,
                     source_intervals |-> s1.intervals],
     min_effect |-> s2.min_effect, max_effect |-> s2.max_effect,
     min_sig |-> s2.min_sig, max_sig |-> s2.max_sig,
     reo_ids |-> s2.reo_ids, source_ids |-> s1.ids, target_ids |-> s2.ids,
     panicked |-> s1.panicked \/ s2.panicked]

\* The target intervals, visited after the source intervals.
FilterTargets(target_cx, chromosome, s1) ==
    ChromTuple(chromosome, s1,
               FilterRole(target_cx, s1, chromosome.target_intervals))

\* The closure mapped over data.chromosomes.
FilterChromosome(source_cx, target_cx, chromosome) ==
    FilterTargets(target_cx, chromosome,
                  FilterRole(source_cx, ChromState, chromosome.source_intervals))

\* source_facets / target_facets: the value ids of the categorical facets
\* whose coverage holds the role.
RECURSIVE SelectFacets(_, _, _)
SelectFacets(facets, role, k) ==
    IF k > Len(facets) THEN <<>>
    ELSE (IF facets[k].facet_type = CATEGORICAL /\ role \in Unwrap(facets[k].coverage)
          THEN <<Unwrap(facets[k].values)>> ELSE <<>>)
         \o SelectFacets(facets, role, k + 1)

\* sf_with_selections: the role's facets that hold a selected value.
RECURSIVE WithSelections(_, _, _)
WithSelections(role_facets, disc, k) ==
    IF k > Len(role_facets) THEN <<>>
    ELSE (IF ~is_disjoint(role_facets[k], disc) THEN <<role_facets[k]>> ELSE <<>>)
         \o WithSelections(role_facets, disc, k + 1)

\* Index of the first facet of that name, 0 when there is none.
RECURSIVE FindFacet(_, _, _)
FindFacet(facets, name, k) ==
    IF k > Len(facets) THEN 0
    ELSE IF facets[k].name = name THEN k
    ELSE FindFacet(facets, name, k + 1)

\* The unwrap() calls that fail: a facet range that is needed and missing,
\* a categorical facet without coverage or values.
FilterPanics(f, d) ==
    \/ /\ f.numeric_intervals = None
       /\ \E name \in {"Effect Size", "Significance"} :
             LET k == FindFacet(d.facets, name, 1) IN
             k = 0 \/ d.facets[k].range = None
    \/ \E k \in DOMAIN d.facets :
          /\ d.facets[k].facet_type = CATEGORICAL
          /\ (d.facets[k].coverage = None \/ d.facets[k].values = None)

\* The facet-declared range, or the requested interval when there is one.
IntervalOf(f, d, name, field) ==
    IF f.numeric_intervals # None THEN Unwrap(f.numeric_intervals)[field]
    ELSE Unwrap(d.facets[FindFacet(d.facets, name, 1)].range)

\* The context of one role: the flags, the intervals and the selections.
RoleContext(f, d, role, bucket_size) ==
    LET all_values == UNION {Unwrap(d.facets[k].values) :
                               k \in {k \in DOMAIN d.facets : d.facets[k].values # None}}
        disc == all_values \cap f.categorical_facets
        with == WithSelections(SelectFacets(d.facets, role, 1), disc, 1)
    IN [skip_disc_facet_check |-> disc = {},
        skip_cont_facet_check |-> f.numeric_intervals = None,
        effect_size_interval |-> IntervalOf(f, d, "Effect Size", "effect"),
        sig_interval |-> IntervalOf(f, d, "Significance", "sig"),
        with_selections |-> with,
        selected |-> [n \in DOMAIN with |-> with[n] \cap disc],
        bucket_list |-> BucketList_new(d, bucket_size)]

FoldMinFirst(acc, tuples, field, k) ==
    IF k > Len(tuples) THEN acc ELSE Min(tuples[k][field], acc)

\* min over the per-chromosome tuples, from the given start.
RECURSIVE FoldMin(_, _, _, _)
FoldMin(acc, tuples, field, k) ==
    IF k > Len(tuples) THEN acc
    ELSE FoldMin(Min(tuples[k][field], acc), tuples, field, k + 1)

RECURSIVE FoldMax(_, _, _, _)
FoldMax(acc, tuples, field, k) ==
    IF k > Len(tuples) THEN acc
    ELSE FoldMax(Max(tuples[k][field], acc), tuples, field, k + 1)

\* An extremum that was never set falls back to the interval's bound.
Fallback(value, unset, bound) == IF value = unset THEN bound ELSE value

\* The result built from the per-chromosome tuples (filtered_data).
CollectTuples(tuples, effect_size_interval, sig_interval) ==
    LET item_sets == <<UNION {tuples[k].reo_ids : k \in DOMAIN tuples},
                       UNION {tuples[k].source_ids : k \in DOMAIN tuples},
                       UNION {tuples[k].target_ids : k \in DOMAIN tuples}>>
    IN IF \E k \in DOMAIN tuples : tuples[k].panicked THEN PANIC
       ELSE [chromosomes |-> [k \in DOMAIN tuples |-> tuples[k].chrom_data],
             numeric_intervals |->
                [effect |-> <<Fallback(FoldMin(INFINITY, tuples, "min_effect", 1),
                                       INFINITY, effect_size_interval[1]),
                              Fallback(FoldMax(NEG_INFINITY, tuples, "max_effect", 1),
                                       NEG_INFINITY, effect_size_interval[2])>>,
                 sig |-> <<Fallback(FoldMin(INFINITY, tuples, "min_sig", 1),
                                    INFINITY, sig_interval[1]),
                           Fallback(FoldMax(NEG_INFINITY, tuples, "max_sig", 1),
                                    NEG_INFINITY, sig_interval[2])>>],
             item_counts |-> <<Cardinality(item_sets[1]), Cardinality(item_sets[2]),
                               Cardinality(item_sets[3])>>,
             item_sets |-> item_sets]

\* filtered_data: the closure mapped over data.chromosomes.
MapChromosomes(f, d) ==
    [k \in DOMAIN d.chromosomes |->
        FilterChromosome(
            RoleContext(f, d, "Source", d.chromosomes[k].bucket_size),
            RoleContext(f, d, "Target", d.chromosomes[k].bucket_size),
            d.chromosomes[k])]

filter_coverage_data(f, d) ==
    IF FilterPanics(f, d) THEN PANIC
    ELSE CollectTuples(MapChromosomes(f, d),
                       IntervalOf(f, d, "Effect Size", "effect"),
                       IntervalOf(f, d, "Significance", "sig"))

----------------------------------------------------------------------------
(* Inputs of filter_coverage_data *)

NumReos == 2        \* regulatory effect observations per catalog
MaxEffect == 2      \* the largest absolute effect size of the catalog

\* Where the catalog's features lie: sources 10..13, targets 20 and 21.
FeatureLoc(id) ==
    CASE id = 10 -> [chrom |-> 1, idx |-> 0]
      [] id = 11 -> [chrom |-> 1, idx |-> 0]
      [] id = 12 -> [chrom |-> 1, idx |-> NumBuckets - 1]
      [] id = 13 -> [chrom |-> 2, idx |-> 0]
      [] id = 20 -> [chrom |-> 1, idx |-> NumBuckets - 1]
      [] id = 21 -> [chrom |-> 2, idx |-> 0]

\* The source and target features observation k may link (0: no target).
Placements(k) ==
    CASE k = 1 -> {<<10, 20>>}
      [] k = 2 -> {<<10, 0>>, <<11, 21>>}
      [] OTHER -> {<<13, 20>>, <<12, 0>>}

FacetIdSets == {{1}, {2, 3}, {1, 3}}

\* <<effect_size, exponent of the significance>>
Measures == {<<0 - MaxEffect, -1>>, <<1, -2>>, <<MaxEffect, -2>>}

ReoOptions(k) ==
    {[reo_id |-> 100 + k, source |-> p[1], target |-> p[2], facet_ids |-> fs,
      effect_size |-> m[1], significance |-> m[2]] :
        p \in Placements(k), fs \in FacetIdSets, m \in Measures}

\* The catalog's facets.
CatalogFacets ==
    << [name |-> "Direction", facet_type |-> CATEGORICAL,
        coverage |-> Some({"Source", "Target"}), values |-> Some({1, 2}),
        range |-> None],
       [name |-> "Source Type", facet_type |-> CATEGORICAL,
        coverage |-> Some({"Source"}), values |-> Some({3}), range |-> None],
       [name |-> "Effect Size", facet_type |-> "FacetType.NUMERIC",
        coverage |-> Some({"Source", "Target"}), values |-> None,
        range |-> Some(<<0 - MaxEffect - 1, MaxEffect + 1>>)],
       [name |-> "Significance", facet_type |-> "FacetType.NUMERIC",
        coverage |-> Some({"Source", "Target"}), values |-> None,
        range |-> Some(<<0, 3>>)] >>

RoleField(role) == IF role = "Source" THEN "source" ELSE "target"
OtherField(role) == IF role = "Source" THEN "target" ELSE "source"

\* The observations of the feature id in a role, in catalog order.
RECURSIVE ObservationsOf(_, _, _, _)
ObservationsOf(reos, role, id, k) ==
    IF k > Len(reos) THEN <<>>
    ELSE (IF reos[k][RoleField(role)] = id
          THEN <<[reo_id |-> reos[k].reo_id, facet_ids |-> reos[k].facet_ids,
                  effect_size |-> reos[k].effect_size,
                  significance |-> reos[k].significance]>>
          ELSE <<>>)
         \o ObservationsOf(reos, role, id, k + 1)

\* One feature of the catalog: its observations and the buckets of the
\* features of the other role that they link.
FeatureOf(reos, role, id) ==
    [id |-> id,
     facets |-> ObservationsOf(reos, role, id, 1),
     associated_buckets |->
        AscendingLocs({FeatureLoc(reos[k][OtherField(role)]) :
                         k \in {k \in DOMAIN reos :
                                  /\ reos[k][RoleField(role)] = id
                                  /\ reos[k][OtherField(role)] # 0}})]

\* The ids of a role's features: those observed, and with extra = "bare"
\* the source feature 11 even when no observation names it.
FeatureIds(reos, role, extra) ==
    ({reos[k][RoleField(role)] : k \in DOMAIN reos} \ {0})
      \cup (IF extra = "bare" /\ role = "Source" THEN {11} ELSE {})

\* A role's intervals on chromosome c; with extra = "empty" the last source
\* bucket of chromosome 1 is listed even when it holds no feature.
IntervalsOf(reos, role, c, extra) ==
    LET ids == {id \in FeatureIds(reos, role, extra) : FeatureLoc(id).chrom = c}
        bs == Ascending({FeatureLoc(id).idx : id \in ids}
                \cup (IF extra = "empty" /\ role = "Source" /\ c = 1
                      THEN {NumBuckets - 1} ELSE {}))
    IN [n \in DOMAIN bs |->
          LET here == Ascending({id \in ids : FeatureLoc(id).idx = bs[n]})
          IN [start |-> StartOf(bs[n]),
              values |-> [m \in DOMAIN here |-> FeatureOf(reos, role, here[m])]]]

ChromosomeOf(reos, name, c, extra) ==
    [chrom |-> name, index |-> c, bucket_size |-> BucketSize,
     source_intervals |-> IntervalsOf(reos, "Source", c, extra),
     target_intervals |-> IntervalsOf(reos, "Target", c, extra)]

\* The facets of a catalog: all four, or with extra = "noeffect" without
\* "Effect Size", or with extra = "norange" with a "Significance" facet that
\* declares no range.
FacetsOf(extra) ==
    CASE extra = "noeffect" -> <<CatalogFacets[1], CatalogFacets[2], CatalogFacets[4]>>
      [] extra = "norange"  -> [CatalogFacets EXCEPT ![4].range = None]
      [] OTHER              -> CatalogFacets

\* A catalog.  With extra = "short" the length of chromosome 1 is that of a
\* single bucket, so that a location in a later bucket is beyond the bucket
\* count; with extra = "chr1only" the catalog holds chromosome 1 alone, so
\* that a location on chromosome 2 names no chromosome of the catalog.
CatalogOf(reos, extra) ==
    [facets |-> FacetsOf(extra),
     chromosomes |->
        IF extra = "chr1only" THEN <<ChromosomeOf(reos, "chr1", 1, extra)>>
        ELSE <<ChromosomeOf(reos, "chr1", 1, extra),
               ChromosomeOf(reos, "chr2", 2, extra)>>,
     chrom_lengths |->
        CASE extra = "short"    -> <<BucketSize - 1, BucketSize - 1>>
          [] extra = "chr1only" -> <<NumBuckets * BucketSize - 1>>
          [] OTHER              -> <<NumBuckets * BucketSize - 1, BucketSize - 1>>]

\* Every list of observations: the first always, the later ones optional.
RECURSIVE ReoLists(_)
ReoLists(k) ==
    IF k = 1 THEN {<<r>> : r \in ReoOptions(1)}
    ELSE LET shorter == ReoLists(k - 1)
         IN {l \in shorter : Len(l) < k - 1}
            \cup {l \in shorter : Len(l) = k - 1}
            \cup {Append(l, r) : l \in {l \in shorter : Len(l) = k - 1},
                                 r \in ReoOptions(k)}

\* Two observations, the second linking a source of chromosome 1 with a
\* target of chromosome 2.
LinkedLists ==
    {<<r1, r2>> : r1 \in {r \in ReoOptions(1) : r.facet_ids = {1} /\ r.effect_size = 1},
                  r2 \in {r \in ReoOptions(2) : r.target = 21}}

Catalogs ==
    {CatalogOf(reos, "none") : reos \in ReoLists(NumReos)}
      \cup {CatalogOf(reos, extra) :
               reos \in ReoLists(1),
               extra \in {"bare", "empty", "short", "noeffect", "norange"}}
      \cup {CatalogOf(reos, "chr1only") : reos \in LinkedLists}

\* FilterIntervals::new(): the interval that excludes nothing.
FilterIntervals_new ==
    [effect |-> <<NEG_INFINITY, INFINITY>>, sig |-> <<NEG_INFINITY, INFINITY>>]

NumericFilters ==
    {None,
     Some(FilterIntervals_new),
     Some([effect |-> <<1, MaxEffect>>, sig |-> <<1, 2>>]),
     Some([effect |-> <<0 - MaxEffect, 1>>, sig |-> <<2, 2>>])}

Filters ==
    {[chrom |-> None, categorical_facets |-> c, numeric_intervals |-> n] :
        c \in {{}, {1}, {1, 2}, {3}, {1, 3}, {9}}, n \in NumericFilters}
      \cup {[chrom |-> Some(c), categorical_facets |-> {}, numeric_intervals |-> None] :
              c \in {1, 2}}
      \cup {[chrom |-> Some(1), categorical_facets |-> {1},
             numeric_intervals |-> Some([effect |-> <<1, MaxEffect>>, sig |-> <<1, 2>>])]}

FilterInit ==
    /\ data \in Catalogs
    /\ filters \in Filters
    /\ filtered = Unset
    /\ result_data = Unset
    /\ chromosome_list = Unset
    /\ merged = Unset
    /\ partial = Unset
    /\ nested = Unset
    /\ encoded = Unset
    /\ decoded = Unset
    /\ partials = Unset
    /\ combined = Unset
    /\ order = Unset
    /\ permuted = Unset

\* A caller filters the catalog.
CallFilter ==
    /\ filtered = Unset
    /\ filtered' = filter_coverage_data(filters, data)
    /\ UNCHANGED <<data, filters, merge_vars, decode_vars, combine_vars, permute_vars>>

FilterNext == CallFilter

FilterSpec == FilterInit /\ [][FilterNext]_vars

----------------------------------------------------------------------------
(* Properties of filter_coverage_data *)

FilterRoles == {"Source", "Target"}

RoleIntervals(ch, role) ==
    IF role = "Source" THEN ch.source_intervals ELSE ch.target_intervals

\* The features of a role, each with the chromosome and interval it lies in.
FeaturesOf(d, role) ==
    UNION {UNION {{[k |-> k, i |-> i, feature |-> RoleIntervals(d.chromosomes[k], role)[i].values[m]] :
                      m \in DOMAIN RoleIntervals(d.chromosomes[k], role)[i].values} :
                  i \in DOMAIN RoleIntervals(d.chromosomes[k], role)} :
           k \in DOMAIN d.chromosomes}

ObsOf(feature) == {feature.facets[n] : n \in DOMAIN feature.facets}

\* The role's id set of the call: source_ids or target_ids.
RoleIds(res, role) == IF role = "Source" THEN res.item_sets[2] ELSE res.item_sets[3]

\* The categorical facets of the catalog that cover the role and hold a
\* value the Filter selects.
ActiveFacets(f, d, role) ==
    {k \in DOMAIN d.facets :
        /\ d.facets[k].facet_type = CATEGORICAL
        /\ role \in Unwrap(d.facets[k].coverage)
        /\ Unwrap(d.facets[k].values) \cap f.categorical_facets # {}}

\* The categorical test as C4 states it.
StatedCategorical(f, d, role, o) ==
    \/ \A k \in DOMAIN d.facets :
          d.facets[k].values # None => Unwrap(d.facets[k].values) \cap f.categorical_facets = {}
    \/ \A k \in ActiveFacets(f, d, role) :
          o.facet_ids \cap Unwrap(d.facets[k].values) \cap f.categorical_facets # {}

\* The numeric test as C5 states it: both intervals closed.
StatedNumeric(f, o) ==
    \/ f.numeric_intervals = None
    \/ LET n == Unwrap(f.numeric_intervals) IN
       /\ n.effect[1] <= o.effect_size /\ o.effect_size <= n.effect[2]
       /\ n.sig[1] <= 0 - o.significance /\ 0 - o.significance <= n.sig[2]

\* The ids and observation ids of the call are those of the features and
\* observations that Test admits, in each role; a feature without any
\* observation may be listed as well.
IdsAre(res, f, d, Test(_, _)) ==
    /\ \A role \in FilterRoles :
          LET admitted == {x.feature.id : x \in {x \in FeaturesOf(d, role) :
                              \E o \in ObsOf(x.feature) : Test(role, o)}}
              bare == {x.feature.id : x \in {x \in FeaturesOf(d, role) :
                              ObsOf(x.feature) = {}}}
          IN /\ admitted \subseteq RoleIds(res, role)
             /\ RoleIds(res, role) \subseteq admitted \cup bare
    /\ res.item_sets[1] =
          UNION {UNION {{o.reo_id : o \in {o \in ObsOf(x.feature) : Test(role, o)}} :
                           x \in FeaturesOf(d, role)} : role \in FilterRoles}

CategoricalOnly(role, o) == StatedCategorical(filters, data, role, o)

\* C4: the categorical test is evaluated per role.  With no numeric
\* interval, the features and observations of the result are those with an
\* observation that, for every categorical facet covering the role with a
\* selected value, holds a selected value of that facet; every observation
\* passes when no requested id is a value of the catalog.
C4_CategoricalPerRole ==
    (Returned(filtered) /\ filters.numeric_intervals = None)
      => IdsAre(filtered, filters, data, CategoricalOnly)

C4_Witness ==
    /\ Returned(filtered)
    /\ filters.numeric_intervals = None
    /\ filters.categorical_facets = {1, 3}
    /\ filtered.item_sets[2] = {11}
    /\ filtered.item_sets[3] = {20, 21}

BothTests(role, o) ==
    StatedCategorical(filters, data, role, o) /\ StatedNumeric(filters, o)

\* C5: an observation that passed the categorical test is included iff no
\* numeric interval is supplied or its effect_size and its -log10
\* significance lie in their closed intervals.
C5_NumericClosed ==
    Returned(filtered) => IdsAre(filtered, filters, data, BothTests)

C5_Witness ==
    /\ Returned(filtered)
    /\ filters.numeric_intervals # None
    /\ \E x \in FeaturesOf(data, "Source") : \E o \in ObsOf(x.feature) :
          /\ o.effect_size = Unwrap(filters.numeric_intervals).effect[1]
          /\ 0 - o.significance = Unwrap(filters.numeric_intervals).sig[2]
          /\ o.reo_id \in filtered.item_sets[1]
          /\ x.feature.id \in filtered.item_sets[2]
    /\ \E x \in FeaturesOf(data, "Source") : \E o \in ObsOf(x.feature) :
          /\ o.effect_size < Unwrap(filters.numeric_intervals).effect[1]
          /\ o.reo_id \notin filtered.item_sets[1]

\* Every FilteredBucket of the result, in both roles.
BucketsOf(res) ==
    UNION {{res.chromosomes[k].source_intervals[i] :
               i \in DOMAIN res.chromosomes[k].source_intervals}
           \cup {res.chromosomes[k].target_intervals[i] :
               i \in DOMAIN res.chromosomes[k].target_intervals} :
           k \in DOMAIN res.chromosomes}

\* C6: filter_coverage_data never emits a FilteredBucket with count = 0.
C6_NoEmptyBucket ==
    Returned(filtered) => \A b \in BucketsOf(filtered) : b.count > 0

\* Whether the role takes the filtering loops rather than "do no filtering".
RoleIsFiltered(f, d, role) ==
    f.numeric_intervals # None \/ ActiveFacets(f, d, role) # {}

\* The observations that contribute to the bucket emitted for an interval:
\* those included, which are all of them when the role is not filtered.
Contributing(f, d, role, interval) ==
    UNION {{o \in ObsOf(interval.values[m]) :
               ~RoleIsFiltered(f, d, role) \/ BothTests(role, o)} :
           m \in DOMAIN interval.values}

\* C7: for every emitted bucket, max_abs_effect is the effect_size of one
\* of the observations that contributed to the bucket, and none of them has
\* a larger absolute effect_size.
C7_MagnitudePreserved ==
    Returned(filtered) =>
      \A k \in DOMAIN filtered.chromosomes : \A role \in FilterRoles :
        \A b \in DOMAIN RoleIntervals(filtered.chromosomes[k], role) :
          LET bucket == RoleIntervals(filtered.chromosomes[k], role)[b]
              from == {i \in DOMAIN RoleIntervals(data.chromosomes[k], role) :
                          RoleIntervals(data.chromosomes[k], role)[i].start = bucket.start}
          IN \A i \in from :
               LET obs == Contributing(filters, data, role,
                                       RoleIntervals(data.chromosomes[k], role)[i])
               IN /\ \E o \in obs : o.effect_size = bucket.max_abs_effect
                  /\ \A o \in obs : Abs(o.effect_size) <= Abs(bucket.max_abs_effect)

\* The observations that pass the stated test in some role.
Passing(f, d, Test(_, _)) ==
    UNION {UNION {{o \in ObsOf(x.feature) : Test(role, o)} :
                     x \in FeaturesOf(d, role)} : role \in FilterRoles}

\* The interval is the minimum and maximum effect_size and -log10
\* significance over obs.
RealizedOver(res, obs) ==
    /\ \E o \in obs : res.numeric_intervals.effect[1] = o.effect_size
    /\ \E o \in obs : res.numeric_intervals.effect[2] = o.effect_size
    /\ \E o \in obs : res.numeric_intervals.sig[1] = 0 - o.significance
    /\ \E o \in obs : res.numeric_intervals.sig[2] = 0 - o.significance
    /\ \A o \in obs :
          /\ res.numeric_intervals.effect[1] <= o.effect_size
          /\ o.effect_size <= res.numeric_intervals.effect[2]
          /\ res.numeric_intervals.sig[1] <= 0 - o.significance
          /\ 0 - o.significance <= res.numeric_intervals.sig[2]

Included(role, o) == ~RoleIsFiltered(filters, data, role) \/ BothTests(role, o)

FilteredCategorical(role, o) ==
    RoleIsFiltered(filters, data, role) /\ StatedCategorical(filters, data, role, o)

C9_ChromRestriction ==
    (Returned(filtered) /\ filters.chrom # None) =>
      \A k \in DOMAIN filtered.chromosomes :
        filtered.chromosomes[k].index # Unwrap(filters.chrom)
          => /\ filtered.chromosomes[k].source_intervals = <<>>
             /\ filtered.chromosomes[k].target_intervals = <<>>

----------------------------------------------------------------------------
(* Further properties of merge_filtered_data *)

RECURSIVE SumOver(_, _)
SumOver(f, S) ==
    IF S = {} THEN 0
    ELSE LET x == CHOOSE x \in S : TRUE IN f[x] + SumOver(f, S \ {x})

\* out is the merge of the list rd: reo_count is the sum of the inputs'
\* reo_count, sources and targets hold exactly the ids of some input.
CountsAndUnions(rd, out) ==
    /\ out.reo_count = SumOver([k \in DOMAIN rd |-> rd[k].reo_count], DOMAIN rd)
    /\ \A id \in out.sources \cup UNION {rd[k].sources : k \in DOMAIN rd} :
          id \in out.sources <=> \E k \in DOMAIN rd : id \in rd[k].sources
    /\ \A id \in out.targets \cup UNION {rd[k].targets : k \in DOMAIN rd} :
          id \in out.targets <=> \E k \in DOMAIN rd : id \in rd[k].targets

\* C11: the result of merge_filtered_data has the sum of the inputs'
\* reo_count, and as sources and targets the unions of the inputs' sources
\* and targets (an id held by several inputs is held once).  Checked for the
\* merge of the whole list and for the merge of an earlier result with the
\* third input.
C11_SumAndUnion ==
    /\ Returned(merged) => CountsAndUnions(result_data, merged)
    /\ Returned(nested) => CountsAndUnions(<<partial, result_data[3]>>, nested)

C11_Witness ==
    /\ Returned(merged)
    /\ Len(result_data) = 3
    /\ result_data[1].sources \cap result_data[2].sources # {}
    /\ merged.reo_count = 6
    /\ Cardinality(merged.sources) = 4
    /\ Cardinality(merged.targets) = 4

----------------------------------------------------------------------------
(* Further properties of filter_coverage_data *)

\* The bounds the call falls back to: the requested interval, or the ranges
\* the catalog declares for "Effect Size" and "Significance".
FallbackBounds(f, d) ==
    IF f.numeric_intervals # None THEN Unwrap(f.numeric_intervals)
    ELSE [effect |-> Unwrap(d.facets[FindFacet(d.facets, "Effect Size", 1)].range),
          sig |-> Unwrap(d.facets[FindFacet(d.facets, "Significance", 1)].range)]

BoundsOf(iv) == {iv.effect[1], iv.effect[2], iv.sig[1], iv.sig[2]}

\* C12: when no observation is included, the returned numeric interval is
\* the requested interval, or the facet-declared ranges when none is
\* requested, and none of its bounds is an infinity.
C12_FallbackNoInfinity ==
    (Returned(filtered) /\ Passing(filters, data, Included) = {}) =>
        /\ filtered.numeric_intervals = FallbackBounds(filters, data)
        /\ BoundsOf(filtered.numeric_intervals) \cap {INFINITY, NEG_INFINITY} = {}

\* The catalog lacks a facet-declared range: no facet is named "Effect Size"
\* or "Significance", or the facet of that name declares no range.
RangeLacking(d) ==
    \E name \in {"Effect Size", "Significance"} :
        \/ \A k \in DOMAIN d.facets : d.facets[k].name # name
        \/ \E k \in DOMAIN d.facets :
              /\ d.facets[k].name = name
              /\ \A j \in 1..(k - 1) : d.facets[j].name # name
              /\ d.facets[k].range = None

\* C13: the call fails exactly when the Filter holds no numeric interval and
\* the catalog lacks a facet-declared range; with a numeric interval
\* supplied the call does not fail.
C13_FailsExactlyWithoutRange ==
    filtered # Unset =>
        (filtered = PANIC <=> (filters.numeric_intervals = None /\ RangeLacking(data)))

\* The location (c, i) names a bucket of the bucket list of catalog d.
Resolvable(d, c, i) ==
    \E k \in DOMAIN d.chromosomes \cap DOMAIN d.chrom_lengths :
        /\ d.chromosomes[k].index = c
        /\ i >= 0
        /\ i < (d.chrom_lengths[k] \div d.chromosomes[k].bucket_size) + 1

\* The (chromosome_index, bucket_index) pairs of a flat list.
PairsOf(flat) == {<<flat[2 * n - 1], flat[2 * n]>> : n \in 1..(Len(flat) \div 2)}

\* C14: a location that the bucket list cannot resolve is skipped: it does
\* not make the call fail (a call that needs no missing facet range
\* returns), and no emitted bucket lists it.
C14_LookupMissSkipped ==
    /\ (filtered # Unset
          /\ ~(filters.numeric_intervals = None /\ RangeLacking(data)))
         => filtered # PANIC
    /\ Returned(filtered) =>
         \A b \in BucketsOf(filtered) : \A p \in PairsOf(b.associated_buckets) :
            Resolvable(data, p[1], p[2])

----------------------------------------------------------------------------
(* filter_data_structures.rs: decoding a serialized FilteredData *)

\* The names the decoder knows: enum Field with rename_all = "lowercase".
FIELDS ==
    <<"chromosomes", "bucket_size", "numeric_intervals", "reo_count",
      "sources", "targets">>

\* Result::Err of the decoder.
Err(kind, field) == [err |-> kind, field |-> field]

\* RoaringTreemap::deserialize_from on a payload: the ids, or an error.
RoaringTreemap_deserialize_from(payload) ==
    IF payload.valid THEN Some(payload.ids) ELSE None

\* The tail of visit_seq and visit_map: both bitmaps are decoded with
\* unwrap(), then the FilteredData is built.
BuildFilteredData(vals) ==
    IF \/ RoaringTreemap_deserialize_from(vals["sources"]) = None
       \/ RoaringTreemap_deserialize_from(vals["targets"]) = None
    THEN PANIC
    ELSE [chromosomes |-> vals["chromosomes"],
          bucket_size |-> vals["bucket_size"],
          numeric_intervals |-> vals["numeric_intervals"],
          reo_count |-> vals["reo_count"],
          sources |-> Unwrap(RoaringTreemap_deserialize_from(vals["sources"])),
          targets |-> Unwrap(RoaringTreemap_deserialize_from(vals["targets"]))]

\* visit_seq: the six elements in order, an absent one is invalid_length.
visit_seq(seq) ==
    IF Len(seq) < Len(FIELDS) THEN Err("invalid_length", FIELDS[Len(seq) + 1])
    ELSE BuildFilteredData([f \in {FIELDS[i] : i \in DOMAIN FIELDS} |->
                               seq[CHOOSE i \in DOMAIN FIELDS : FIELDS[i] = f].value])

\* The first field, in the order of the checks, that the map did not hold.
RECURSIVE FirstMissing(_, _)
FirstMissing(vals, i) ==
    IF i > Len(FIELDS) THEN 0
    ELSE IF FIELDS[i] \notin DOMAIN vals THEN i
    ELSE FirstMissing(vals, i + 1)

\* After the loop of visit_map: the missing_field checks, then the bitmaps.
FinishMap(vals) ==
    IF FirstMissing(vals, 1) # 0
    THEN Err("missing_field", FIELDS[FirstMissing(vals, 1)])
    ELSE BuildFilteredData(vals)

\* "while let Some(key) = map.next_key()?": vals holds the fields seen.
RECURSIVE VisitMapLoop(_, _, _)
VisitMapLoop(map, k, vals) ==
    IF k > Len(map) THEN FinishMap(vals)
    ELSE IF \A i \in DOMAIN FIELDS : FIELDS[i] # map[k].key
         THEN Err("unknown_field", map[k].key)
    ELSE IF map[k].key \in DOMAIN vals
         THEN Err("duplicate_field", map[k].key)
    ELSE VisitMapLoop(map, k + 1,
            [f \in DOMAIN vals \cup {map[k].key} |->
                IF f = map[k].key THEN map[k].value ELSE vals[f]])

visit_map(map) == VisitMapLoop(map, 1, <<>>)

\* FilteredData::deserialize: the format hands the visitor a sequence or a map.
deserialize(e) ==
    IF e.form = "seq" THEN visit_seq(e.entries) ELSE visit_map(e.entries)

----------------------------------------------------------------------------
(* Inputs of the decoder *)

\* The name the serializer writes for field i (FILTERED_DATA_BUCKET_SIZE is
\* "bucket_Size"), or the name the decoder knows.
KeyOf(i, style) ==
    IF style = "serializer" /\ i = 2 THEN "bucket_Size" ELSE FIELDS[i]

\* The FilteredData whose fields are encoded.
EncodedData(n) ==
    InputOf("full", n, [on |-> {0}, v |-> 1], [on |-> {}, v |-> 1])

\* The value of field i; a bitmap payload is well-formed or not.
ValueOf(n, i, sources_valid, targets_valid) ==
    CASE i = 5 -> [valid |-> sources_valid, ids |-> EncodedData(n).sources]
      [] i = 6 -> [valid |-> targets_valid, ids |-> EncodedData(n).targets]
      [] OTHER -> EncodedData(n)[FIELDS[i]]

AllFields == [i \in DOMAIN FIELDS |-> i]

Without(i) == SubSeq(AllFields, 1, i - 1) \o SubSeq(AllFields, i + 1, Len(FIELDS))

\* The fields a serialized form lists, by index: all of them in either
\* order, all but one, or all with one listed a second time.
FieldLists(form) ==
    IF form = "seq" THEN {SubSeq(AllFields, 1, n) : n \in 0..Len(FIELDS)}
    ELSE {AllFields, [i \in DOMAIN FIELDS |-> Len(FIELDS) + 1 - i]}
           \cup {Without(i) : i \in DOMAIN FIELDS}
           \cup {Append(AllFields, i) : i \in DOMAIN FIELDS}
           \cup {<<i>> \o AllFields : i \in DOMAIN FIELDS}

DecodeInit ==
    \E form \in {"seq", "map"}, style \in {"serializer", "lowercase"},
       n \in 1..3, sources_valid \in BOOLEAN, targets_valid \in BOOLEAN :
      \E list \in FieldLists(form) :
        /\ encoded = [form |-> form,
                      entries |-> [k \in DOMAIN list |->
                                     [key |-> KeyOf(list[k], style),
                                      value |-> ValueOf(n, list[k], sources_valid,
                                                        targets_valid)]]]
        /\ decoded = Unset
        /\ result_data = Unset
        /\ chromosome_list = Unset
        /\ merged = Unset
        /\ partial = Unset
        /\ nested = Unset
        /\ data = Unset
        /\ filters = Unset
        /\ filtered = Unset
        /\ partials = Unset
        /\ combined = Unset
        /\ order = Unset
        /\ permuted = Unset

\* A caller decodes the serialized form.
CallDeserialize ==
    /\ decoded = Unset
    /\ decoded' = deserialize(encoded)
    /\ UNCHANGED <<encoded, merge_vars, filter_vars, combine_vars, permute_vars>>

DecodeNext == CallDeserialize

DecodeSpec == DecodeInit /\ [][DecodeNext]_vars

----------------------------------------------------------------------------
(* Properties of the decoder *)

KeysOf(e) == {e.entries[k].key : k \in DOMAIN e.entries}

\* A field is missing from the serialized form.
FieldMissing(e) ==
    IF e.form = "seq" THEN Len(e.entries) < Len(FIELDS)
    ELSE \E i \in DOMAIN FIELDS : FIELDS[i] \notin KeysOf(e)

\* A field occurs twice in the serialized form.
FieldTwice(e) ==
    /\ e.form = "map"
    /\ \E j \in DOMAIN e.entries : \E k \in DOMAIN e.entries :
          j # k /\ e.entries[j].key = e.entries[k].key

\* A sources or targets payload is malformed.
BitmapMalformed(e) ==
    \E k \in DOMAIN e.entries :
        /\ e.entries[k].key \in {"sources", "targets"}
        /\ ~e.entries[k].value.valid

IsErr(v) == v # Unset /\ v # PANIC /\ "err" \in DOMAIN v

\* C15: decoding a serialized form with a missing field, a field that
\* occurs twice or a malformed sources / targets payload returns a decode
\* error: neither a value nor a panic.
C15_DecodeErrors ==
    (decoded # Unset
       /\ (FieldMissing(encoded) \/ FieldTwice(encoded) \/ BitmapMalformed(encoded)))
      => IsErr(decoded)

----------------------------------------------------------------------------
(* Totality of merge_filtered_data *)

IsFilteredData(v) ==
    DOMAIN v = {"chromosomes", "numeric_intervals", "bucket_size", "reo_count",
                "sources", "targets"}

\* C16: for every list of inputs, the empty list and the one-element list
\* included, and every name list, a call of merge_filtered_data ends and
\* returns a FilteredData: no list makes it fail.
C16_MergeTotal ==
    /\ merged # Unset => (merged # PANIC /\ IsFilteredData(merged))
    /\ partial # Unset => (partial # PANIC /\ IsFilteredData(partial))
    /\ nested # Unset => (nested # PANIC /\ IsFilteredData(nested))

----------------------------------------------------------------------------
(* Combining the per-chromosome tuples (filter.rs:357-417) *)

\* The catalogs whose chromosomes are combined.
CombineCatalogs == {CatalogOf(reos, "none") : reos \in ReoLists(1) \cup LinkedLists}

\* The tuples of four chromosomes (those of two catalogs, filtered alike)
\* with the bounds the call falls back to.
CombineInit ==
    \E f \in Filters, d1 \in CombineCatalogs, d2 \in CombineCatalogs :
        /\ partials = [tuples |-> MapChromosomes(f, d1) \o MapChromosomes(f, d2),
                       effect_size_interval |-> IntervalOf(f, d1, "Effect Size", "effect"),
                       sig_interval |-> IntervalOf(f, d1, "Significance", "sig")]
        /\ combined = Unset
        /\ result_data = Unset
        /\ chromosome_list = Unset
        /\ merged = Unset
        /\ partial = Unset
        /\ nested = Unset
        /\ data = Unset
        /\ filters = Unset
        /\ filtered = Unset
        /\ encoded = Unset
        /\ decoded = Unset
        /\ order = Unset
        /\ permuted = Unset

\* The call folds the tuples into its result.
CallCollect ==
    /\ combined = Unset
    /\ combined' = CollectTuples(partials.tuples, partials.effect_size_interval,
                                 partials.sig_interval)
    /\ UNCHANGED <<partials, merge_vars, filter_vars, decode_vars, permute_vars>>

CombineNext == CallCollect

CombineSpec == CombineInit /\ [][CombineNext]_vars

\* The orders of n tuples.
Orders(n) == {p \in [1..n -> 1..n] : \A i \in 1..n : \A j \in 1..n : i # j => p[i] # p[j]}

\* What the claim compares: realized interval, id sets, distinct counts.
Summary(r) == <<r.numeric_intervals, r.item_sets, r.item_counts>>

\* The partial result of a group of tuples: elementwise min / max and set
\* unions, itself a tuple that can be combined further.
PartialOf(g) ==
    [chrom_data |-> <<>>,
     min_effect |-> FoldMin(INFINITY, g, "min_effect", 1),
     max_effect |-> FoldMax(NEG_INFINITY, g, "max_effect", 1),
     min_sig |-> FoldMin(INFINITY, g, "min_sig", 1),
     max_sig |-> FoldMax(NEG_INFINITY, g, "max_sig", 1),
     reo_ids |-> UNION {g[k].reo_ids : k \in DOMAIN g},
     source_ids |-> UNION {g[k].source_ids : k \in DOMAIN g},
     target_ids |-> UNION {g[k].target_ids : k \in DOMAIN g},
     panicked |-> FALSE]

Collect(ts) == CollectTuples(ts, partials.effect_size_interval, partials.sig_interval)

\* C17: the realized interval, the id sets and the distinct counts that
\* filter_coverage_data builds from the per-chromosome tuples are the same
\* for every order of the tuples and for every grouping: the tuples split
\* in two or in three groups, each group combined to a partial result first.
C17_CombineOrderFree ==
    Returned(combined) =>
      \A p \in Orders(Len(partials.tuples)) :
        LET ts == [k \in DOMAIN partials.tuples |-> partials.tuples[p[k]]]
        IN /\ Summary(Collect(ts)) = Summary(combined)
           /\ \A k \in 0..Len(ts) :
                 Summary(Collect(<<PartialOf(SubSeq(ts, 1, k)),
                                   PartialOf(SubSeq(ts, k + 1, Len(ts)))>>))
                    = Summary(combined)
           /\ \A k \in 1..Len(ts) :
                 Summary(Collect(<<PartialOf(<<PartialOf(SubSeq(ts, 1, 1)),
                                               PartialOf(SubSeq(ts, 2, k))>>),
                                   PartialOf(SubSeq(ts, k + 1, Len(ts)))>>))
                    = Summary(combined)

C17_Witness ==
    /\ Returned(combined)
    /\ Len(partials.tuples) >= 3
    /\ \E a \in DOMAIN partials.tuples : \E b \in DOMAIN partials.tuples :
          /\ a < b
          /\ partials.tuples[a].reo_ids \cap partials.tuples[b].reo_ids # {}
          /\ partials.tuples[a].min_effect < partials.tuples[b].min_effect
          /\ partials.tuples[b].min_effect # INFINITY
          /\ partials.tuples[a].max_sig < partials.tuples[b].max_sig
    /\ combined.numeric_intervals.effect[1] < combined.numeric_intervals.effect[2]

----------------------------------------------------------------------------
(* The associated_buckets list of a FilteredBucket *)

\* A flat list of pairs that holds no pair at two positions.
PairsOnce(flat) ==
    /\ Len(flat) % 2 = 0
    /\ Cardinality(PairsOf(flat)) = Len(flat) \div 2

AllPairsOnce(res) ==
    Returned(res) => \A b \in BucketsOf(res) : PairsOnce(b.associated_buckets)

\* The buckets of filter_coverage_data alone list no pair twice.
FilterPairsOnce == AllPairsOnce(filtered)

\* C18: every FilteredBucket produced by filter_coverage_data or by
\* merge_filtered_data has a flat associated_buckets list of even length in
\* which no (chromosome_index, bucket_index) pair occurs twice.
C18_PairsOnce ==
    /\ AllPairsOnce(filtered)
    /\ AllPairsOnce(merged)
    /\ AllPairsOnce(partial)
    /\ AllPairsOnce(nested)

\* The merged lists are flat lists of pairs all the same.
MergedEvenLength ==
    Returned(merged) =>
        \A b \in BucketsOf(merged) : Len(b.associated_buckets) % 2 = 0

\* Every input of the merge lists no pair twice.
InputsPairsOnce ==
    \A k \in DOMAIN result_data :
        \A b \in BucketsOf(result_data[k]) : PairsOnce(b.associated_buckets)

----------------------------------------------------------------------------
(* The default chromosome of merge_chromosomes *)

\* The chromosome c has the index and bucket_size of a chromosome of that
\* name of some input.
FromInput(rd, c) ==
    \E d \in DOMAIN rd : \E j \in DOMAIN rd[d].chromosomes :
        /\ rd[d].chromosomes[j].chrom = c.chrom
        /\ rd[d].chromosomes[j].index = c.index
        /\ rd[d].chromosomes[j].bucket_size = c.bucket_size

\* C19: the default chromosome (index 0, bucket_size 0) is never used: every
\* chromosome of a merge of two or more inputs has the index and
\* bucket_size of an input chromosome of its name, whatever the name list.
C19_DefaultNeverUsed ==
    (Returned(merged) /\ Len(result_data) >= 2)
      => \A k \in DOMAIN merged.chromosomes :
            FromInput(result_data, merged.chromosomes[k])

\* A name of the list that is held by an input and listed once.
ListedOnceAndHeld(rd, names, k) ==
    /\ \A j \in DOMAIN names : names[j] = names[k] => j = k
    /\ \E d \in DOMAIN rd : FirstNamed(rd[d].chromosomes, names[k], 1) # 0

\* For such names the output chromosome does come from an input.
DefaultUnusedForHeldNames ==
    (Returned(merged) /\ Len(result_data) >= 2)
      => \A k \in DOMAIN chromosome_list :
            ListedOnceAndHeld(result_data, chromosome_list, k)
              => FromInput(result_data, merged.chromosomes[k])

----------------------------------------------------------------------------
(* The "do no filtering" path against the filtering loops *)

\* The context of a role whose two tests pass for every observation.
BothPassing(cx) ==
    [cx EXCEPT !.skip_disc_facet_check = TRUE, !.skip_cont_facet_check = TRUE]

\* One role of one chromosome, the role named general taken through the
\* filtering loops with both tests passing, the other as the code takes it.
RoleVia(cx, st, intervals, role, general) ==
    IF role = general
    THEN FilterIntervals(BothPassing(cx), [st EXCEPT !.ids = {}, !.intervals = <<>>],
                         intervals, 1)
    ELSE FilterRole(cx, st, intervals)

GeneralTargets(target_cx, chromosome, s1, general) ==
    ChromTuple(chromosome, s1,
               RoleVia(target_cx, s1, chromosome.target_intervals, "Target", general))

GeneralChromosome(source_cx, target_cx, chromosome, general) ==
    GeneralTargets(target_cx, chromosome,
                   RoleVia(source_cx, ChromState, chromosome.source_intervals,
                           "Source", general),
                   general)

\* The result of the call when the role general goes through the filtering
\* loops with both tests passing.
GeneralResult(f, d, general) ==
    IF FilterPanics(f, d) THEN PANIC
    ELSE CollectTuples(
             [k \in DOMAIN d.chromosomes |->
                 GeneralChromosome(
                     RoleContext(f, d, "Source", d.chromosomes[k].bucket_size),
                     RoleContext(f, d, "Target", d.chromosomes[k].bucket_size),
                     d.chromosomes[k], general)],
             IntervalOf(f, d, "Effect Size", "effect"),
             IntervalOf(f, d, "Significance", "sig"))

\* A bucket with its associated_buckets as a set of pairs.
BucketView(b) ==
    [start |-> b.start, count |-> b.count,
     pairs |-> PairsOf(b.associated_buckets),
     max_log10_sig |-> b.max_log10_sig, max_abs_effect |-> b.max_abs_effect]

RoleBuckets(res, role) ==
    [k \in DOMAIN res.chromosomes |->
        [i \in DOMAIN RoleIntervals(res.chromosomes[k], role) |->
            BucketView(RoleIntervals(res.chromosomes[k], role)[i])]]

SameBuckets(res, gen, role) ==
    gen # PANIC /\ RoleBuckets(res, role) = RoleBuckets(gen, role)

SameIds(res, gen, role) ==
    gen # PANIC /\ RoleIds(res, role) = RoleIds(gen, role)
                /\ res.item_sets[1] = gen.item_sets[1]

SameInterval(res, gen) ==
    gen # PANIC /\ res.numeric_intervals = gen.numeric_intervals

NoFilterPath(role) == Returned(filtered) /\ ~RoleIsFiltered(filters, data, role)

\* C20: for a role that takes the "do no filtering" path, the call yields
\* the same buckets (start, count, set of associated pairs, max_log10_sig,
\* max_abs_effect), the same feature and observation id sets and the same
\* realized numeric interval as the filtering loops would with both tests
\* passing for every observation.
C20_NoFilterIsOptimization ==
    \A role \in FilterRoles :
        NoFilterPath(role) =>
            /\ SameBuckets(filtered, GeneralResult(filters, data, role), role)
            /\ SameIds(filtered, GeneralResult(filters, data, role), role)
            /\ SameInterval(filtered, GeneralResult(filters, data, role))

\* The three parts of the comparison, each on its own.
NoFilterSameBuckets ==
    \A role \in FilterRoles :
        NoFilterPath(role) =>
            SameBuckets(filtered, GeneralResult(filters, data, role), role)

NoFilterSameIds ==
    \A role \in FilterRoles :
        NoFilterPath(role) =>
            SameIds(filtered, GeneralResult(filters, data, role), role)

NoFilterSameInterval ==
    \A role \in FilterRoles :
        NoFilterPath(role) =>
            SameInterval(filtered, GeneralResult(filters, data, role))

----------------------------------------------------------------------------
(* merge_filtered_data on a reordered input list *)

\* The name lists and layouts of inputs that all hold chr1 and chr2.
PermuteScenarios ==
    { [names |-> <<"chr1", "chr2">>, layouts |-> <<"full", "full", "reversed">>],
      [names |-> <<"chr2", "chr1">>, layouts |-> <<"full", "reversed", "full">>],
      [names |-> <<"chr1", "chr1">>, layouts |-> <<"full", "full", "full">>] }

\* The list rd taken in the order ord.
Permute(rd, ord) == [k \in DOMAIN rd |-> rd[ord[k]]]

PermuteInit ==
    \E s1 \in ListShapes, s2 \in ListShapes, s3 \in ListShapes,
       sc \in PermuteScenarios, n \in 2..3 :
        /\ result_data = SubSeq(<<InputOf(sc.layouts[1], 1, s1, s2),
                                  InputOf(sc.layouts[2], 2, s2, s3),
                                  InputOf(sc.layouts[3], 3, s3, s1)>>, 1, n)
        /\ chromosome_list = sc.names
        /\ order \in Orders(n)
        /\ merged = Unset
        /\ partial = Unset
        /\ nested = Unset
        /\ permuted = Unset
        /\ data = Unset
        /\ filters = Unset
        /\ filtered = Unset
        /\ encoded = Unset
        /\ decoded = Unset
        /\ partials = Unset
        /\ combined = Unset

\* A caller merges the list taken in another order.
CallMergePermuted ==
    /\ order # Unset
    /\ permuted = Unset
    /\ permuted' = merge_filtered_data(Permute(result_data, order), chromosome_list)
    /\ UNCHANGED <<order, merge_vars, filter_vars, decode_vars, combine_vars>>

PermuteNext == CallMerge \/ CallMergePermuted

PermuteSpec == PermuteInit /\ [][PermuteNext]_vars

----------------------------------------------------------------------------
(* Properties of the merge of a reordered list *)

\* How often each pair occurs in a flat list.
PairBag(flat) ==
    [p \in PairsOf(flat) |->
        Cardinality({n \in 1..(Len(flat) \div 2) :
                        <<flat[2 * n - 1], flat[2 * n]>> = p})]

\* What the claim compares of one bucket.
BucketMeasure(b) ==
    [start |-> b.start, count |-> b.count, max_log10_sig |-> b.max_log10_sig,
     abs_effect |-> Abs(b.max_abs_effect), pairs |-> PairBag(b.associated_buckets)]

MeasuresOf(list) == [i \in DOMAIN list |-> BucketMeasure(list[i])]

\* What the claim compares of one result.
MergeMeasure(res) ==
    [chromosomes |-> [k \in DOMAIN res.chromosomes |->
                        [chrom |-> res.chromosomes[k].chrom,
                         source_intervals |-> MeasuresOf(res.chromosomes[k].source_intervals),
                         target_intervals |-> MeasuresOf(res.chromosomes[k].target_intervals)]],
     reo_count |-> res.reo_count, sources |-> res.sources, targets |-> res.targets,
     numeric_intervals |-> res.numeric_intervals]

\* C21: for two or more inputs that all hold the same chromosomes, merging
\* the list in another order leaves every merged bucket's start, count,
\* max_log10_sig, absolute max_abs_effect and multiset of associated pairs
\* unchanged, and the merged reo_count, sources, targets and numeric
\* interval too.
C21_OrderOfInputs ==
    (Returned(merged) /\ Returned(permuted) /\ SameShape(result_data)
        /\ Len(result_data) >= 2)
      => MergeMeasure(permuted) = MergeMeasure(merged)

\* Three inputs taken in another order, where the two results differ (in
\* the sign of an effect or the order of the associated pairs) and a
\* bucket is combined from more than one input.
C21_Witness ==
    /\ Returned(merged)
    /\ Returned(permuted)
    /\ Len(result_data) = 3
    /\ order # <<1, 2, 3>>
    /\ permuted.chromosomes # merged.chromosomes
    /\ SharesStart(result_data[1], result_data[2], chromosome_list)
    /\ \E b \in BucketsOf(merged) : \E c \in BucketsOf(permuted) :
          /\ b.start = c.start
          /\ b.max_abs_effect = 0 - c.max_abs_effect
          /\ b.max_abs_effect # 0

----------------------------------------------------------------------------
(* Serialization round trip of FilteredData *)

\* FilteredData::serialize of EncodedData(n): the six fields in order under
\* the serializer's names, the bitmaps as well-formed payloads; the format
\* hands them back to the visitor as a sequence or as a map.
serialize(n, form) ==
    [form |-> form,
     entries |-> [i \in DOMAIN FIELDS |->
                    [key |-> KeyOf(i, "serializer"),
                     value |-> ValueOf(n, i, TRUE, TRUE)]]]

\* encoded is the serialized form of EncodedData(n), handed over as form.
IsSerialized(n, form) ==
    /\ encoded.form = form
    /\ Len(encoded.entries) = Len(FIELDS)
    /\ \A i \in DOMAIN FIELDS : encoded.entries[i].key = serialize(n, form).entries[i].key
    /\ \A i \in DOMAIN FIELDS :
          encoded.entries[i].value = serialize(n, form).entries[i].value

\* The decoded value of a serialized FilteredData is that FilteredData.
RoundTrips(form) ==
    \A n \in 1..3 :
        (decoded # Unset /\ IsSerialized(n, form)) => decoded = EncodedData(n)

\* Every field name of a serialized form is one the decoder accepts.
NamesAccepted ==
    \A n \in 1..3 : \A form \in {"seq", "map"} :
        (decoded # Unset /\ IsSerialized(n, form))
          => \A i \in DOMAIN encoded.entries :
                \E j \in DOMAIN FIELDS : encoded.entries[i].key = FIELDS[j]

\* C22: decoding the serialized form of a FilteredData through visit_map
\* and through visit_seq succeeds and yields an equal FilteredData, and
\* every field name the serializer writes is one the decoder accepts.
C22_RoundTrip ==
    /\ RoundTrips("map")
    /\ RoundTrips("seq")
    /\ NamesAccepted

\* The positional decoder alone does round-trip.
SeqRoundTrips == RoundTrips("seq")

\* The map-keyed decoder alone.
MapRoundTrips == RoundTrips("map")

\* A serialized form was decoded through visit_seq.
SeqRoundTripped ==
    \E n \in 1..3 : decoded = EncodedData(n) /\ IsSerialized(n, "seq")

\* The map form under the decoder's own names decodes to the FilteredData.
LowercaseMapDecodes ==
    \A n \in 1..3 :
        (/\ decoded # Unset
         /\ encoded.form = "map"
         /\ Len(encoded.entries) = Len(FIELDS)
         /\ \A i \in DOMAIN FIELDS : encoded.entries[i].key = FIELDS[i]
         /\ \A i \in DOMAIN FIELDS :
               encoded.entries[i].value = serialize(n, "map").entries[i].value)
          => decoded = EncodedData(n)

LowercaseMapDecoded ==
    /\ Returned(decoded)
    /\ encoded.form = "map"
    /\ Len(encoded.entries) = Len(FIELDS)
    /\ \A i \in DOMAIN FIELDS : encoded.entries[i].key = FIELDS[i]

====
